---- MODULE Spec2Model ----
(***************************************************************************)
(* Model of streamlit_app.py, the Market-Feasible Units Dashboard.         *)
(*                                                                         *)
(* Two specifications share the module:                                    *)
(*   Spec    one rendering pass of the script: locator resolution,         *)
(*           validation, the sequential loads, the zero-record halt and    *)
(*           the four chart+table views;                                   *)
(*   SpecFn  the three functions of the script applied to inputs drawn     *)
(*           from bounded sets.                                            *)
(*                                                                         *)
(* Conventions.  A Python str that the script inspects character by        *)
(* character (a locator) is a sequence of one-character strings; labels    *)
(* and colours are TLA+ strings.  CSV cells are non-negative integer       *)
(* counts.  Within the bounds every group sum stays below 40, where the    *)
(* double-precision value of v / total * 100 rounds exactly as the         *)
(* rational 100v/total does (the first difference is 23/40), so round() is *)
(* modelled on the rational.                                               *)
(***************************************************************************)
EXTENDS Integers, Sequences, FiniteSets, TLC

(* ------------------------------ bounds ------------------------------- *)

\* Largest cell value of a generated CSV row.
MaxVal == 2

\* Largest number of data rows of a generated CSV table.
MaxRows == 2

\* Largest number of scenario records handed to a chart function in SpecFn.
MaxScenarios == 2

\* Largest total / affordable unit count handed to the grouped chart in SpecFn.
MaxUnits == 3

\* Largest number of query parameters in which a request differs from
\* "nothing supplied" or from "everything supplied".
MaxVaried == 1

(* ------------------------- program constants ------------------------- *)

\* for i in range(1, 10): slots 1..9
LastSlot == 9

\* elif not url and i < 3: slots below this one have a default locator
DefaultSlotLimit == 3

VARIABLES
    pc,               \* position of the script in the rendering pass
    params,           \* st.query_params: supplied key -> value
    world,            \* locator -> whether pd.read_csv can read it
    unzoned_csv_url,  \* resolved baseline locator
    zoned_scenarios,  \* resolved scenario list of {url, name}
    k,                \* position of the load loop in zoned_scenarios
    all_data,         \* records loaded so far
    loads,            \* calls of load_data_from_aggregation_csv made so far
    page,             \* elements emitted to the Streamlit page, in order
    call,             \* SpecFn: the function call under test and its arguments
    ret               \* SpecFn: what the call returned

vars == <<pc, params, world, unzoned_csv_url, zoned_scenarios, k, all_data,
          loads, page, call, ret>>

(* --------------------------- Python helpers -------------------------- *)

None == [none |-> TRUE]

RECURSIVE SeqSum(_)
\* sum(values)
SeqSum(s) == IF s = <<>> THEN 0 ELSE Head(s) + SeqSum(Tail(s))

RECURSIVE SeqMax(_)
\* max(values) of a non-empty list
SeqMax(s) ==
    IF Len(s) = 1 THEN s[1]
    ELSE LET m == SeqMax(Tail(s)) IN IF Head(s) > m THEN Head(s) ELSE m

\* round(num / den) for num >= 0, den > 0: the nearest integer, a tie going
\* to the even one (Python 3's built-in round).
py_round(num, den) ==
    LET q == num \div den
        r == num % den
    IN  IF 2 * r > den \/ (2 * r = den /\ q % 2 = 1) THEN q + 1 ELSE q

\* round(v, 1) of an integer count is the count.
py_round1(v) == v

(* ------------------------ the CSV column schema ---------------------- *)

income_columns ==
    << "marketUnits050Sum", "marketUnits51100Sum", "marketUnits101150Sum",
       "marketUnits151200Sum", "marketUnits201250Sum", "marketUnits251Sum" >>

bedroom_columns ==
    << "countMarket0BrSum", "countMarket1BrSum", "countMarket2BrSum",
       "countMarket3BrSum" >>

parking_columns ==
    << "surfaceParkingStallsSum", "garageParkingStallsSum",
       "podiumParkingStallsSum", "structuredParkingStallsSum",
       "undergroundParkingStallsSum" >>

total_columns == << "totalUnitsSum", "affordableUnitsSum" >>

Range(s) == {s[i] : i \in 1..Len(s)}

Columns ==
    Range(income_columns) \cup Range(bedroom_columns)
        \cup Range(parking_columns) \cup Range(total_columns)

(* ------------------- load_data_from_aggregation_csv ------------------ *)

\* What pd.read_csv(url) does: it raises, or yields a table with a set of
\* columns and a list of rows.
Unreadable == [ok |-> FALSE]

DataFrame(columns, rows) == [ok |-> TRUE, columns |-> columns, rows |-> rows]

\* A plausible slip: the row-count test dropped, so a missing column still
\* defaults to 0 but an empty table is indexed (IndexError, here -1).
get_value_no_len(df, column) ==
    IF column \in df.columns
    THEN (IF Len(df.rows) > 0 THEN df.rows[1][column] ELSE -1)
    ELSE 0

\* def get_value(column): first row's value, or 0
get_value(df, column) ==
    IF column \in df.columns /\ Len(df.rows) > 0
    THEN df.rows[1][column]
    ELSE 0

\* A plausible slip: the last entry takes what is left of 100.
pct_list_renormalized(values) ==
    LET total == SeqSum(values)
        n == Len(values)
        raw == [i \in 1..n |-> IF total > 0 THEN py_round(values[i] * 100, total) ELSE 0]
    IN  [i \in 1..n |->
            IF i = n /\ total > 0
            THEN 100 - SeqSum(SubSeq(raw, 1, n - 1))
            ELSE raw[i]]

\* A plausible slip: percentages truncated.
pct_list_truncated(values) ==
    LET total == SeqSum(values)
    IN  [i \in 1..Len(values) |->
            IF total > 0 THEN (values[i] * 100) \div total ELSE 0]

\* [round(v / total * 100) if total > 0 else 0 for v in values]
pct_list(values) ==
    LET total == SeqSum(values)
    IN  [i \in 1..Len(values) |->
            IF total > 0 THEN py_round(values[i] * 100, total) ELSE 0]

\* The two st.error calls of the except branch.
load_error_reports ==
    << [kind |-> "error", text |-> "Error loading CSV data"],
       [kind |-> "error", text |-> "traceback"] >>

\* A plausible slip: the failure is swallowed without a report.
load_failed_silent == [ret |-> None, reports |-> <<>>]

\* The except branch: both reports, then return None.
load_failed == [ret |-> None, reports |-> load_error_reports]

\* load_data_from_aggregation_csv(url, scenario_name); fetched is what
\* pd.read_csv(url) does.  The result pairs the return value with the error
\* reports the call emits.
load_data_from_aggregation_csv(url, scenario_name, fetched) ==
    IF url = <<>> THEN [ret |-> None, reports |-> <<>>]
    ELSE IF ~fetched.ok THEN load_failed
    ELSE
        LET income_values ==
                [i \in 1..Len(income_columns) |-> get_value(fetched, income_columns[i])]
            bedroom_values ==
                [i \in 1..Len(bedroom_columns) |-> get_value(fetched, bedroom_columns[i])]
            parking_values ==
                [i \in 1..Len(parking_columns) |-> get_value(fetched, parking_columns[i])]
        IN  [ret |->
                [scenario_name |-> scenario_name,
                 income_values |-> [i \in 1..Len(income_values) |-> py_round1(income_values[i])],
                 income_pct |-> pct_list(income_values),
                 bedroom_values |-> [i \in 1..Len(bedroom_values) |-> py_round1(bedroom_values[i])],
                 bedroom_pct |-> pct_list(bedroom_values),
                 parking_values |-> [i \in 1..Len(parking_values) |-> py_round1(parking_values[i])],
                 parking_pct |-> pct_list(parking_values),
                 total_units |-> get_value(fetched, "totalUnitsSum"),
                 affordable_units |-> get_value(fetched, "affordableUnitsSum")],
             reports |-> <<>>]

(* ----------------------------- colour maps --------------------------- *)

total_feasibility_color == "#D66E6C"

income_bracket_colors ==
    ("<=50% MFI" :> "#5DBDB4") @@ ("51%-100% MFI" :> "#F07D4A")
        @@ ("101-150% MFI" :> "#6FB573") @@ ("151-200% MFI" :> "#F4C04E")
        @@ ("201-250% MFI" :> "#D66E6C") @@ (">251% MFI" :> "#6B9BD1")

bedroom_count_colors ==
    ("0 bedrooms" :> "#6FB573") @@ ("1 bedroom" :> "#F4C04E")
        @@ ("2 bedrooms" :> "#D66E6C") @@ ("3+ bedrooms" :> "#6B9BD1")

parking_type_colors ==
    ("Surface" :> "#6FB573") @@ ("Garage" :> "#F4C04E")
        @@ ("Podium" :> "#D66E6C") @@ ("Structured" :> "#6B9BD1")
        @@ ("Underground" :> "#5DBDB4")

income_brackets ==
    << "<=50% MFI", "51%-100% MFI", "101-150% MFI", "151-200% MFI",
       "201-250% MFI", ">251% MFI" >>

bedroom_counts == << "0 bedrooms", "1 bedroom", "2 bedrooms", "3+ bedrooms" >>

parking_types == << "Surface", "Garage", "Podium", "Structured", "Underground" >>

(* ---------------------------- chart functions ------------------------ *)

\* f"{v}%" if v > 0 else ""
pct_text(v) == IF v > 0 THEN ToString(v) \o "%" ELSE ""

\* A plausible slip: the traces are added in reverse category order.
stacked_traces_reversed(all_data_, categories, data_key, colors) ==
    [i \in 1..Len(categories) |->
        LET j == Len(categories) + 1 - i
            category == categories[j]
            values == [d \in 1..Len(all_data_) |-> all_data_[d][data_key][j]]
        IN  [name |-> category,
             x |-> [d \in 1..Len(all_data_) |-> all_data_[d].scenario_name],
             y |-> values,
             marker_color |-> colors[category],
             text |-> [d \in 1..Len(values) |-> pct_text(values[d])],
             textposition |-> "inside",
             hovertemplate |-> category \o ": %{y}%<extra></extra>"]]

\* The go.Bar traces of create_multi_scenario_stacked_chart, one per
\* category, in the order fig.add_trace is called.
stacked_traces(all_data_, categories, data_key, colors) ==
    [i \in 1..Len(categories) |->
        LET category == categories[i]
            values == [d \in 1..Len(all_data_) |-> all_data_[d][data_key][i]]
        IN  [name |-> category,
             x |-> [d \in 1..Len(all_data_) |-> all_data_[d].scenario_name],
             y |-> values,
             marker_color |-> colors[category],
             text |-> [d \in 1..Len(values) |-> pct_text(values[d])],
             textposition |-> "inside",
             hovertemplate |-> category \o ": %{y}%<extra></extra>"]]

\* create_multi_scenario_stacked_chart(all_data, categories, data_key, colors)
create_multi_scenario_stacked_chart(all_data_, categories, data_key, colors) ==
    [data |-> stacked_traces(all_data_, categories, data_key, colors),
     layout |-> [barmode |-> "stack", height |-> 600, showticklabels |-> FALSE,
                 legend_orientation |-> "v", legend_xanchor |-> "left",
                 traceorder |-> "normal", plot_bgcolor |-> "white"]]

\* A plausible slip: the sliver is a fixed height of one unit, whatever
\* the scale of the chart.
affordable_display_fixed(total_data_dict) ==
    [i \in 1..Len(total_data_dict["Affordable Units"]) |->
        LET val == total_data_dict["Affordable Units"][i]
        IN  IF val > 0 THEN 100 * val ELSE 100]

\* affordable_display, in hundredths of a unit so that max_value * 0.01
\* is an integer: val if val > 0 else min_display_value.
affordable_display(total_data_dict) ==
    LET max_value ==
            LET a == SeqMax(total_data_dict["Total Units"])
                b == SeqMax(total_data_dict["Affordable Units"])
            IN  IF a > b THEN a ELSE b
    IN  [i \in 1..Len(total_data_dict["Affordable Units"]) |->
            LET val == total_data_dict["Affordable Units"][i]
            IN  IF val > 0 THEN 100 * val ELSE max_value]

\* create_total_feasibility_chart_grouped(scenario_names, total_data_dict, color).
\* y100 is the bar height y in hundredths of a unit.
create_total_feasibility_chart_grouped(scenario_names, total_data_dict, color) ==
    [data |->
        << [name |-> "Total Units",
            x |-> scenario_names,
            y100 |-> [i \in 1..Len(total_data_dict["Total Units"]) |->
                        100 * total_data_dict["Total Units"][i]],
            marker_color |-> color,
            text |-> [i \in 1..Len(total_data_dict["Total Units"]) |->
                        ToString(total_data_dict["Total Units"][i])],
            textposition |-> "inside",
            hovertemplate |-> "Total Units: %{y}<extra></extra>",
            customdata |-> <<>>],
           [name |-> "Affordable Units",
            x |-> scenario_names,
            y100 |-> affordable_display(total_data_dict),
            marker_color |-> "#5DBDB4",
            text |-> [i \in 1..Len(total_data_dict["Affordable Units"]) |->
                        IF total_data_dict["Affordable Units"][i] > 0
                        THEN ToString(total_data_dict["Affordable Units"][i])
                        ELSE ""],
            textposition |-> "inside",
            hovertemplate |-> "Affordable Units: %{customdata}<extra></extra>",
            customdata |-> total_data_dict["Affordable Units"]] >>,
     layout |-> [barmode |-> "group", height |-> 400, showticklabels |-> TRUE,
                 legend_orientation |-> "h", legend_xanchor |-> "right",
                 traceorder |-> "normal", plot_bgcolor |-> "white"]]

(* ------------------------- locator resolution ------------------------ *)

\* The two default locators; the script never decodes or inspects them.
default_unzoned_url == << "default_unzoned_url" >>

default_zoned_url == << "default_zoned_url" >>

HexDigits ==
    { "0", "1", "2", "3", "4", "5", "6", "7", "8", "9",
      "A", "B", "C", "D", "E", "F", "a", "b", "c", "d", "e", "f" }

HexVal(c) ==
    CASE c = "0" -> 0 [] c = "1" -> 1 [] c = "2" -> 2 [] c = "3" -> 3
      [] c = "4" -> 4 [] c = "5" -> 5 [] c = "6" -> 6 [] c = "7" -> 7
      [] c = "8" -> 8 [] c = "9" -> 9
      [] c \in {"A", "a"} -> 10 [] c \in {"B", "b"} -> 11
      [] c \in {"C", "c"} -> 12 [] c \in {"D", "d"} -> 13
      [] c \in {"E", "e"} -> 14 [] c \in {"F", "f"} -> 15

\* The character a decoded byte stands for, for the bytes the hex digits
\* 2, 5 and F can spell; a byte from 0x80 on, alone, is not valid UTF-8 and
\* decodes (errors="replace") to U+FFFD.
Chr(code) ==
    CASE code = 34 -> "\""
      [] code = 37 -> "%"
      [] code = 47 -> "/"
      [] code = 82 -> "R"
      [] code = 85 -> "U"
      [] code = 95 -> "_"
      [] code >= 128 -> "U+FFFD"

\* A plausible slip: the parameter is used as supplied.
unquote_skipped(s) == s

RECURSIVE unquote(_)
\* urllib.parse.unquote: every %XX with two hex digits becomes the character
\* of byte XX; a % not followed by two hex digits stays.
unquote(s) ==
    IF s = <<>> THEN <<>>
    ELSE IF s[1] = "%" /\ Len(s) >= 3 /\ s[2] \in HexDigits /\ s[3] \in HexDigits
         THEN << Chr(16 * HexVal(s[2]) + HexVal(s[3])) >> \o unquote(SubSeq(s, 4, Len(s)))
         ELSE << s[1] >> \o unquote(Tail(s))

\* url_key = f"zoned_url_{i}"
url_key(i) == "zoned_url_" \o ToString(i)

\* f"Scenario {i}"
scenario_name_of(i) == "Scenario " \o ToString(i)

\* Truthiness of params.get(key): supplied and not the empty string.
param_given(p, key) == key \in DOMAIN p /\ p[key] # <<>>

\* unzoned_csv_url = unquote(params.get("unzoned_url")) if ... else default
resolve_unzoned_url(p) ==
    IF param_given(p, "unzoned_url") THEN unquote(p["unzoned_url"])
    ELSE default_unzoned_url

\* A plausible slip: the defaults are applied only when no parameter at all
\* is supplied.
slot_url_global_default(p, i) ==
    IF param_given(p, url_key(i)) THEN unquote(p[url_key(i)])
    ELSE IF DOMAIN p = {} /\ i < DefaultSlotLimit THEN default_zoned_url
    ELSE <<>>

\* The url of slot i after the if / elif of the resolution loop; empty when
\* the slot is not configured.
resolve_slot_url(p, i) ==
    IF param_given(p, url_key(i)) THEN unquote(p[url_key(i)])
    ELSE IF i < DefaultSlotLimit THEN default_zoned_url
    ELSE <<>>

\* zoned_scenarios after the loop over range(1, 10).
resolve_zoned_scenarios(p) ==
    LET slots == [i \in 1..LastSlot |->
                    [url |-> resolve_slot_url(p, i), name |-> scenario_name_of(i)]]
    IN  SelectSeq(slots, LAMBDA sc: sc.url # <<>>)

(* ------------------------------ the world ---------------------------- *)

\* The locators that name a CSV export somewhere.
locator_uz == << "u", "/", "z" >>

Locators == { default_unzoned_url, default_zoned_url, locator_uz }

\* A single-row table holding the given cells (column -> count).
one_row(cells) == DataFrame(DOMAIN cells, << cells >>)

\* The export behind each locator.
site_table(url) ==
    IF url = default_unzoned_url
    THEN one_row(("totalUnitsSum" :> 500) @@ ("affordableUnitsSum" :> 50)
                 @@ ("marketUnits050Sum" :> 10) @@ ("marketUnits51100Sum" :> 90))
    ELSE IF url = default_zoned_url
    THEN one_row(("totalUnitsSum" :> 300) @@ ("affordableUnitsSum" :> 0)
                 @@ ("marketUnits050Sum" :> 1) @@ ("marketUnits51100Sum" :> 1)
                 @@ ("marketUnits101150Sum" :> 1)
                 @@ ("countMarket0BrSum" :> 2) @@ ("countMarket1BrSum" :> 1)
                 @@ ("surfaceParkingStallsSum" :> 4))
    ELSE DataFrame({"totalUnitsSum", "unrelatedColumn"}, <<>>)

\* pd.read_csv(url) in the given world.
read_csv(w, url) ==
    IF url \in DOMAIN w /\ w[url] THEN site_table(url) ELSE Unreadable

(* --------------------------- the rendering pass ---------------------- *)

\* Parameter values a request may carry: the empty string, an encoded
\* locator, and a string whose % starts no escape.
param_empty == <<>>

param_encoded == << "u", "%", "2", "F", "z" >>

param_partial == << "u", "%", "2" >>

ParamKeys == { "unzoned_url" } \cup { url_key(i) : i \in 1..LastSlot }

\* A request: every key absent, or every key carrying param_encoded, except
\* for at most MaxVaried keys that are absent or carry any of the values.
Requests ==
    LET absent == << "absent" >>
        Values == { absent, param_empty, param_encoded, param_partial }
        Filled(base, V, f) == [key \in ParamKeys |-> IF key \in V THEN f[key] ELSE base]
        Supplied(q) == [key \in { x \in ParamKeys : q[x] # absent } |-> q[key]]
    IN  UNION { UNION { { Supplied(Filled(base, V, f)) : f \in [V -> Values] } :
                        V \in { W \in SUBSET ParamKeys : Cardinality(W) <= MaxVaried } } :
                base \in { absent, param_encoded } }

Init ==
    /\ pc = "resolve"
    /\ params \in Requests
    /\ world \in [Locators -> BOOLEAN]
    /\ unzoned_csv_url = <<>>
    /\ zoned_scenarios = <<>>
    /\ k = 0
    /\ all_data = <<>>
    /\ loads = <<>>
    /\ page = <<>>
    /\ call = [fn |-> "none"]
    /\ ret = None

\* Lines 284-305: the baseline locator and the scenario list.
ResolveLocators ==
    /\ pc = "resolve"
    /\ unzoned_csv_url' = resolve_unzoned_url(params)
    /\ zoned_scenarios' = resolve_zoned_scenarios(params)
    /\ pc' = "validate"
    /\ UNCHANGED <<params, world, k, all_data, loads, page, call, ret>>

\* Lines 307-315: with no locator at all, an error, the usage hint, st.stop().
Validate ==
    /\ pc = "validate"
    /\ IF unzoned_csv_url = <<>> /\ zoned_scenarios = <<>>
       THEN /\ page' = page \o << [kind |-> "error", text |-> "Data not found"],
                                  [kind |-> "info", text |-> "Example"] >>
            /\ pc' = "stopped_no_locator"
       ELSE /\ page' = page
            /\ pc' = "load_unzoned"
    /\ UNCHANGED <<params, world, unzoned_csv_url, zoned_scenarios, k, all_data,
                   loads, call, ret>>

\* A plausible slip: the record is inserted at the head of the list.
appended_front(data, loaded) ==
    IF loaded.ret # None THEN << loaded.ret >> \o data ELSE data

\* if scenario_data: all_data.append(scenario_data)
appended(data, loaded) ==
    IF loaded.ret # None THEN Append(data, loaded.ret) ELSE data

\* Lines 320-324: the baseline is loaded first.
LoadUnzoned ==
    /\ pc = "load_unzoned"
    /\ IF unzoned_csv_url # <<>>
       THEN LET loaded == load_data_from_aggregation_csv(
                              unzoned_csv_url, "Unzoned", read_csv(world, unzoned_csv_url))
            IN  /\ loads' = Append(loads, [url |-> unzoned_csv_url, name |-> "Unzoned"])
                /\ page' = page \o loaded.reports
                /\ all_data' = appended(all_data, loaded)
       ELSE UNCHANGED <<loads, page, all_data>>
    /\ k' = 1
    /\ pc' = "load_zoned"
    /\ UNCHANGED <<params, world, unzoned_csv_url, zoned_scenarios, call, ret>>

\* Lines 327-330: one iteration of the loop over zoned_scenarios.
LoadScenario ==
    /\ pc = "load_zoned"
    /\ k <= Len(zoned_scenarios)
    /\ LET scenario == zoned_scenarios[k]
           loaded == load_data_from_aggregation_csv(
                         scenario.url, scenario.name, read_csv(world, scenario.url))
       IN  /\ loads' = Append(loads, [url |-> scenario.url, name |-> scenario.name])
           /\ page' = page \o loaded.reports
           /\ all_data' = appended(all_data, loaded)
    /\ k' = k + 1
    /\ UNCHANGED <<pc, params, world, unzoned_csv_url, zoned_scenarios, call, ret>>

\* A plausible slip: the zero-record test is missing and the pass goes on to
\* render.
CheckLoadedMissing ==
    /\ pc = "load_zoned"
    /\ k > Len(zoned_scenarios)
    /\ page' = page
    /\ pc' = "render_totals"
    /\ UNCHANGED <<params, world, unzoned_csv_url, zoned_scenarios, k, all_data,
                   loads, call, ret>>

\* Lines 332-335: with no record, an error and st.stop().
CheckLoaded ==
    /\ pc = "load_zoned"
    /\ k > Len(zoned_scenarios)
    /\ IF all_data = <<>>
       THEN /\ page' = Append(page, [kind |-> "error", text |-> "Failed to load any data"])
            /\ pc' = "stopped_no_data"
       ELSE /\ page' = page
            /\ pc' = "render_totals"
    /\ UNCHANGED <<params, world, unzoned_csv_url, zoned_scenarios, k, all_data,
                   loads, call, ret>>

\* scenario_names of the loaded records.
names_of(data) == [d \in 1..Len(data) |-> data[d].scenario_name]

\* df.T of a frame built from {label: [value per scenario]}: one row per
\* label, one column per scenario.
transposed_frame(labels, data, values_key) ==
    [kind |-> "dataframe",
     index |-> labels,
     columns |-> names_of(data),
     values |-> [i \in 1..Len(labels) |->
                    [d \in 1..Len(data) |-> data[d][values_key][i]]]]

\* The title, chart, subheader and table of one breakdown view.
breakdown_view(title, subheader, data, labels, values_key, pct_key, colors) ==
    << [kind |-> "title", text |-> title],
       [kind |-> "plotly_chart",
        fig |-> create_multi_scenario_stacked_chart(data, labels, pct_key, colors)],
       [kind |-> "subheader", text |-> subheader],
       transposed_frame(labels, data, values_key) >>

\* Lines 361-379: the totals chart and its table.
RenderTotals ==
    /\ pc = "render_totals"
    /\ LET scenario_names == names_of(all_data)
           total_data_dict ==
               ("Total Units" :> [d \in 1..Len(all_data) |-> all_data[d].total_units])
               @@ ("Affordable Units" :>
                      [d \in 1..Len(all_data) |-> all_data[d].affordable_units])
       IN  page' = page \o
               << [kind |-> "title", text |-> "Market-Feasible Units Dashboard"],
                  [kind |-> "plotly_chart",
                   fig |-> create_total_feasibility_chart_grouped(
                               scenario_names, total_data_dict, total_feasibility_color)],
                  [kind |-> "subheader", text |-> "Feasibility Data"],
                  [kind |-> "dataframe",
                   index |-> << "Total Units", "Affordable Units" >>,
                   columns |-> scenario_names,
                   values |-> << total_data_dict["Total Units"],
                                 total_data_dict["Affordable Units"] >>],
                  [kind |-> "markdown", text |-> "---"] >>
    /\ pc' = "render_income"
    /\ UNCHANGED <<params, world, unzoned_csv_url, zoned_scenarios, k, all_data,
                   loads, call, ret>>

\* Lines 381-399: the income-bracket view.
RenderIncome ==
    /\ pc = "render_income"
    /\ page' = page \o
           breakdown_view("Market-feasible units affordable to different income brackets",
                          "Income Bracket Data", all_data, income_brackets,
                          "income_values", "income_pct", income_bracket_colors)
           \o << [kind |-> "markdown", text |-> "---"] >>
    /\ pc' = "render_bedrooms"
    /\ UNCHANGED <<params, world, unzoned_csv_url, zoned_scenarios, k, all_data,
                   loads, call, ret>>

\* Lines 401-418: the bedroom-count view.
RenderBedrooms ==
    /\ pc = "render_bedrooms"
    /\ page' = page \o
           breakdown_view("Market-feasible units by bedroom count",
                          "Bedroom Count Data", all_data, bedroom_counts,
                          "bedroom_values", "bedroom_pct", bedroom_count_colors)
           \o << [kind |-> "markdown", text |-> "---"] >>
    /\ pc' = "render_parking"
    /\ UNCHANGED <<params, world, unzoned_csv_url, zoned_scenarios, k, all_data,
                   loads, call, ret>>

\* Lines 420-435: the parking view, the last of the page.
RenderParking ==
    /\ pc = "render_parking"
    /\ page' = page \o
           breakdown_view("Parking stalls by type", "Parking Data", all_data,
                          parking_types, "parking_values", "parking_pct",
                          parking_type_colors)
    /\ pc' = "done"
    /\ UNCHANGED <<params, world, unzoned_csv_url, zoned_scenarios, k, all_data,
                   loads, call, ret>>

Next ==
    \/ ResolveLocators
    \/ Validate
    \/ LoadUnzoned
    \/ LoadScenario
    \/ CheckLoaded
    \/ RenderTotals
    \/ RenderIncome
    \/ RenderBedrooms
    \/ RenderParking

Spec == Init /\ [][Next]_vars

(* --------------------- the functions on their own -------------------- *)

\* A table of n rows whose first row holds the cells that are not -1; a
\* column whose cell is -1 is absent.  Row j holds the first row's values
\* plus j - 1, so that no later row repeats the first.
table_of(cells, n) ==
    LET present == { c \in DOMAIN cells : cells[c] # -1 }
    IN  DataFrame(present,
                  [j \in 1..n |-> [c \in present |-> cells[c] + j - 1]])

ColumnGroups == { income_columns, bedroom_columns, parking_columns, total_columns }

test_locator == << "u" >>

load_call(url, fetched) ==
    [fn |-> "load", url |-> url, scenario_name |-> "Unzoned", fetched |-> fetched]

\* The name of the record at position d of a record list: the baseline,
\* then the scenarios.
position_name(d) == IF d = 1 THEN "Unzoned" ELSE scenario_name_of(d - 1)

\* A single-row table in which, in every group, the first column holds w,
\* the columns up to the j-th hold 1 and the rest hold 0.
sample_table(j, w) ==
    LET group_cells(cols) ==
            [i \in 1..Len(cols) |-> IF i = 1 THEN w ELSE IF i <= j THEN 1 ELSE 0]
        cells_of(cols) ==
            LET v == group_cells(cols)
            IN  [c \in Range(cols) |-> v[CHOOSE x \in 1..Len(cols) : cols[x] = c]]
    IN  table_of(cells_of(income_columns) @@ cells_of(bedroom_columns)
                 @@ cells_of(parking_columns) @@ cells_of(total_columns), 1)

\* The record the loader returns for the sample table (j, w), as the d-th
\* record of a list.
sample_record(d, j, w) ==
    load_data_from_aggregation_csv(test_locator, position_name(d), sample_table(j, w)).ret

\* The three calls the script makes of create_multi_scenario_stacked_chart.
StackedConfigs ==
    { [categories |-> income_brackets, data_key |-> "income_pct",
       colors |-> income_bracket_colors],
      [categories |-> bedroom_counts, data_key |-> "bedroom_pct",
       colors |-> bedroom_count_colors],
      [categories |-> parking_types, data_key |-> "parking_pct",
       colors |-> parking_type_colors] }

\* The calls under test.
\*  - The loader: an empty locator; an unreadable source; a table of
\*    1..MaxRows rows in which the cells of one column group range over
\*    absent and 0..MaxVal while every other column is absent, or present
\*    with value 1; a zero-row table with some of the column groups.
\*  - The stacked chart: each of the script's three calls, on a list of
\*    1..MaxScenarios records the loader returned for sample tables.
\*  - The grouped chart: 1..MaxScenarios scenarios with total and affordable
\*    counts in 0..MaxUnits.
FnInit ==
    /\ pc = "fn_call"
    /\ \/ call = load_call(<<>>, Unreadable)
       \/ call = load_call(test_locator, Unreadable)
       \/ \E g \in ColumnGroups, other \in {-1, 1}, n \in 1..MaxRows :
            \E f \in [Range(g) -> -1..MaxVal] :
                call = load_call(test_locator,
                           table_of([c \in Columns |-> IF c \in Range(g) THEN f[c] ELSE other], n))
       \/ \E G \in SUBSET ColumnGroups :
            call = load_call(test_locator, DataFrame(UNION { Range(g) : g \in G }, <<>>))
       \/ \E n \in 1..MaxScenarios, cfg \in StackedConfigs :
            \E js \in [1..n -> 1..4], ws \in [1..n -> 0..MaxVal] :
                call = [fn |-> "stacked",
                        all_data |-> [d \in 1..n |-> sample_record(d, js[d], ws[d])],
                        categories |-> cfg.categories, data_key |-> cfg.data_key,
                        colors |-> cfg.colors]
       \/ \E n \in 1..MaxScenarios :
            \E t \in [1..n -> 0..MaxUnits], a \in [1..n -> 0..MaxUnits] :
                call = [fn |-> "grouped",
                        scenario_names |-> [d \in 1..n |-> position_name(d)],
                        total_data_dict |-> ("Total Units" :> t) @@ ("Affordable Units" :> a),
                        color |-> total_feasibility_color]
    /\ ret = None
    /\ page = <<>>
    /\ params = <<>>
    /\ world = <<>>
    /\ unzoned_csv_url = <<>>
    /\ zoned_scenarios = <<>>
    /\ k = 0
    /\ all_data = <<>>
    /\ loads = <<>>

\* load_data_from_aggregation_csv(url, scenario_name) is called.
CallLoad ==
    /\ pc = "fn_call"
    /\ call.fn = "load"
    /\ LET loaded == load_data_from_aggregation_csv(
                         call.url, call.scenario_name, call.fetched)
       IN  /\ ret' = loaded.ret
           /\ page' = page \o loaded.reports
    /\ pc' = "fn_returned"
    /\ UNCHANGED <<params, world, unzoned_csv_url, zoned_scenarios, k, all_data,
                   loads, call>>

\* create_multi_scenario_stacked_chart(all_data, categories, data_key, colors)
\* is called.
CallStacked ==
    /\ pc = "fn_call"
    /\ call.fn = "stacked"
    /\ ret' = create_multi_scenario_stacked_chart(
                  call.all_data, call.categories, call.data_key, call.colors)
    /\ pc' = "fn_returned"
    /\ UNCHANGED <<params, world, unzoned_csv_url, zoned_scenarios, k, all_data,
                   loads, page, call>>

\* create_total_feasibility_chart_grouped(scenario_names, total_data_dict, color)
\* is called.
CallGrouped ==
    /\ pc = "fn_call"
    /\ call.fn = "grouped"
    /\ ret' = create_total_feasibility_chart_grouped(
                  call.scenario_names, call.total_data_dict, call.color)
    /\ pc' = "fn_returned"
    /\ UNCHANGED <<params, world, unzoned_csv_url, zoned_scenarios, k, all_data,
                   loads, page, call>>

FnNext == CallLoad \/ CallStacked \/ CallGrouped

SpecFn == FnInit /\ [][FnNext]_vars

(* ============================== claims ============================== *)

Abs(x) == IF x < 0 THEN -x ELSE x

\* A call of the loader has returned.
LoadReturned == pc = "fn_returned" /\ call.fn = "load"

\* The call of the loader failed to read or parse its source.
LoadFailure == call.url # <<>> /\ ~call.fetched.ok

\* The call of the loader parsed its source.
LoadParsed == call.url # <<>> /\ call.fetched.ok

\* The (values, percentages) pairs of the three bucket groups of a record.
GroupsOf(r) ==
    { << r.income_values, r.income_pct >>,
      << r.bedroom_values, r.bedroom_pct >>,
      << r.parking_values, r.parking_pct >> }

(* C1 as stated: for every parsed source and each bucket group, if the    *)
(* group's values are not all zero then the returned percentage array     *)
(* sums to exactly 100.                                                   *)
C1_SumsToExactly100 ==
    (LoadReturned /\ LoadParsed) =>
        \A g \in GroupsOf(ret) : SeqSum(g[1]) > 0 => SeqSum(g[2]) = 100

(* C1 amended: for every parsed source and each bucket group whose values *)
(* are not all zero, every percentage lies in 0..100 and the array sums   *)
(* to 100 up to rounding drift: the sum differs from 100 by at most half  *)
(* the number of buckets, rounded down (3 for income, 2 for bedroom and   *)
(* parking).                                                              *)
C1_SumsTo100UpToDrift ==
    (LoadReturned /\ LoadParsed) =>
        \A g \in GroupsOf(ret) :
            SeqSum(g[1]) > 0 =>
                /\ \A i \in 1..Len(g[2]) : g[2][i] \in 0..100
                /\ Abs(SeqSum(g[2]) - 100) <= Len(g[2]) \div 2

\* Six equal income buckets: 17 each, 102 in all.
C1_Witness ==
    /\ LoadReturned /\ LoadParsed
    /\ ret.income_values = << 1, 1, 1, 1, 1, 1 >>
    /\ SeqSum(ret.income_pct) = 102

(* C2 as stated: a call whose read or parse fails returns None and emits  *)
(* exactly one error report, and no call emits more than one report.      *)
C2_ExactlyOneReport ==
    LoadReturned =>
        /\ LoadFailure => (ret = None /\ Len(page) = 1)
        /\ Len(page) <= 1

(* C2 amended: a call whose read or parse fails returns None without      *)
(* propagating and emits exactly two error elements, the message and then *)
(* the traceback; every other call emits none, so a call emits zero or    *)
(* two.                                                                   *)
C2_MessageAndTraceback ==
    LoadReturned =>
        /\ LoadFailure =>
            /\ ret = None
            /\ Len(page) = 2
            /\ \A i \in 1..2 : page[i].kind = "error"
            /\ page[1].text = "Error loading CSV data"
            /\ page[2].text = "traceback"
        /\ ~LoadFailure => page = <<>>

C2_Witness ==
    /\ LoadReturned /\ LoadFailure
    /\ ret = None
    /\ Len(page) = 2

\* The value column c contributes: 0 when the column is absent or the table
\* has no row, else the first row's cell.
ExpectedValue(df, c) ==
    IF c \notin df.columns \/ df.rows = <<>> THEN 0 ELSE Head(df.rows)[c]

C8_IndependentRounding ==
    (LoadReturned /\ LoadParsed) =>
        \A g \in GroupsOf(ret) :
            LET values == g[1]
                pct == g[2]
                total == SeqSum(values)
            IN  /\ Len(pct) = Len(values)
                /\ \A i \in 1..Len(values) :
                    LET off == Abs(100 * values[i] - pct[i] * total)
                    IN  IF total > 0
                        THEN /\ 2 * off <= total
                             /\ 2 * off = total => pct[i] % 2 = 0
                        ELSE pct[i] = 0
                /\ (total = 3 /\ \A i \in 1..Len(values) : values[i] \in {0, 1}) =>
                    \A i \in 1..Len(values) : pct[i] = 33 * values[i]

\* Values 1, 1, 1 of sum 3: 33, 33, 33.
C8_Witness ==
    /\ LoadReturned /\ LoadParsed
    /\ ret.bedroom_values = << 1, 1, 1, 0 >>
    /\ ret.bedroom_pct = << 33, 33, 33, 0 >>

\* A call of the grouped totals chart has returned.
GroupedReturned == pc = "fn_returned" /\ call.fn = "grouped"

\* The maximum over all Total Units and Affordable Units values.
MaxOfBoth ==
    LET all == Range(call.total_data_dict["Total Units"])
                 \cup Range(call.total_data_dict["Affordable Units"])
    IN  CHOOSE m \in all : \A v \in all : v <= m

\* What C6 says of every entry but the sliver's positivity; bar heights are
\* in hundredths of a unit, so 1% of the maximum is MaxOfBoth itself.
GroupedBarsAsClaimed ==
    LET total == call.total_data_dict["Total Units"]
        affordable == call.total_data_dict["Affordable Units"]
        total_bar == ret.data[1]
        affordable_bar == ret.data[2]
    IN  /\ Len(ret.data) = 2
        /\ total_bar.name = "Total Units" /\ affordable_bar.name = "Affordable Units"
        /\ \A i \in 1..Len(total) :
            /\ total_bar.y100[i] = 100 * total[i]
            /\ total_bar.text[i] = ToString(total[i])
        /\ affordable_bar.customdata = affordable
        /\ \A i \in 1..Len(affordable) :
            IF affordable[i] = 0
            THEN /\ affordable_bar.y100[i] = MaxOfBoth
                 /\ affordable_bar.text[i] = ""
                 /\ affordable_bar.customdata[i] = 0
            ELSE /\ affordable_bar.y100[i] = 100 * affordable[i]
                 /\ affordable_bar.text[i] = ToString(affordable[i])

(* C6 as stated: for every input, an Affordable Units entry whose true    *)
(* value is 0 is displayed at 1% of the maximum over both series, a       *)
(* strictly positive sliver, with an empty text and hover data 0; an      *)
(* entry > 0 is displayed at its true value with its integer as text;     *)
(* Total Units entries are displayed at their true value.                 *)
C6_SliverAlwaysPositive ==
    GroupedReturned =>
        /\ GroupedBarsAsClaimed
        /\ \A i \in 1..Len(ret.data[2].y100) : ret.data[2].y100[i] > 0

(* C6 amended: as stated, except that the sliver of a zero entry, 1% of   *)
(* the maximum over both series, is strictly positive exactly when that   *)
(* maximum is > 0; when every value of both series is 0 it has height 0.  *)
C6_SliverPositiveIffMaxPositive ==
    GroupedReturned =>
        /\ GroupedBarsAsClaimed
        /\ \A i \in 1..Len(ret.data[2].y100) :
            call.total_data_dict["Affordable Units"][i] = 0 =>
                (ret.data[2].y100[i] > 0 <=> MaxOfBoth > 0)

\* Total 3, affordable 0: a sliver of 0.03 with no text.
C6_Witness ==
    /\ GroupedReturned
    /\ call.total_data_dict["Total Units"] = << 3 >>
    /\ call.total_data_dict["Affordable Units"] = << 0 >>
    /\ ret.data[2].y100 = << 3 >>
    /\ ret.data[2].text = << "" >>
    /\ ret.data[2].customdata = << 0 >>

\* A call of the stacked breakdown chart has returned.
StackedReturned == pc = "fn_returned" /\ call.fn = "stacked"

(* C9: the stacked chart holds exactly one bar series per category label, *)
(* in category order; series i is named categories[i], coloured           *)
(* colors[categories[i]], and carries record[data_key][i] of every record *)
(* in input order, unchanged even when a scenario's stack sums to 99 or   *)
(* 101; a bar's text is the value followed by % when the value is > 0     *)
(* and empty when it is 0.                                                *)
C9_OneSeriesPerCategory ==
    StackedReturned =>
        /\ Len(ret.data) = Len(call.categories)
        /\ \A i \in 1..Len(call.categories) :
            LET series == ret.data[i]
            IN  /\ series.name = call.categories[i]
                /\ series.marker_color = call.colors[call.categories[i]]
                /\ Len(series.y) = Len(call.all_data)
                /\ Len(series.text) = Len(call.all_data)
                /\ Len(series.x) = Len(call.all_data)
                /\ \A d \in 1..Len(call.all_data) :
                    /\ series.x[d] = call.all_data[d].scenario_name
                    /\ series.y[d] = call.all_data[d][call.data_key][i]
                    /\ series.y[d] > 0 => series.text[d] = ToString(series.y[d]) \o "%"
                    /\ series.y[d] = 0 => series.text[d] = ""
        /\ \A d \in 1..Len(call.all_data) :
            SeqSum([i \in 1..Len(ret.data) |-> ret.data[i].y[d]])
                = SeqSum(call.all_data[d][call.data_key])

\* An income stack of 33, 33, 33 (99 in all) is charted as it is.
C9_Witness ==
    /\ StackedReturned
    /\ call.data_key = "income_pct"
    /\ call.all_data[1].income_pct = << 33, 33, 33, 0, 0, 0 >>
    /\ ret.data[1].name = "<=50% MFI"
    /\ ret.data[1].text[1] = "33%"
    /\ ret.data[4].text[1] = ""
    /\ SeqSum([i \in 1..6 |-> ret.data[i].y[1]]) = 99

(* ---------------------- claims on the rendering pass ----------------- *)

\* The positions of the pass after the load loop has ended.
AfterLoads ==
    { "stopped_no_data", "render_totals", "render_income", "render_bedrooms",
      "render_parking", "done" }

\* The positions in which the script renders or has rendered views.
Rendering ==
    { "render_totals", "render_income", "render_bedrooms", "render_parking", "done" }

\* The sources the pass is configured to load, in the canonical order:
\* the baseline, then the scenarios.
ConfiguredSources ==
    << [url |-> unzoned_csv_url, name |-> "Unzoned"] >> \o zoned_scenarios

\* The slot a scenario name stands for; 0 for the baseline.
SlotOf(name) ==
    IF name = "Unzoned" THEN 0
    ELSE CHOOSE i \in 1..LastSlot : name = scenario_name_of(i)

\* The names of the sources of a list whose locator can be read.
ReadableNames(sources) ==
    LET readable == SelectSeq(sources, LAMBDA src : src.url \in DOMAIN world /\ world[src.url])
    IN  [i \in 1..Len(readable) |-> readable[i].name]

(* C4: the configured sources are loaded one at a time, the baseline      *)
(* first and then the scenarios by ascending index; a load that returns   *)
(* None adds no record and the remaining sources are still attempted; the *)
(* record list is exactly the successfully loaded sources in that order,  *)
(* so Unzoned, when present, is first, scenario indices ascend strictly   *)
(* and the names are pairwise distinct.                                   *)
C4_LoadsInCanonicalOrder ==
    pc \in { "load_zoned" } \cup AfterLoads =>
        /\ k \in 1..(Len(zoned_scenarios) + 1)
        /\ loads = SubSeq(ConfiguredSources, 1, k)
        /\ pc \in AfterLoads => loads = ConfiguredSources
        /\ \A i \in 1..Len(loads) : \A j \in 1..Len(loads) :
            i < j => SlotOf(loads[i].name) < SlotOf(loads[j].name)
        /\ \A d \in 1..Len(all_data) : all_data[d] # None
        /\ names_of(all_data) = ReadableNames(loads)
        /\ \A i \in 1..Len(all_data) : \A j \in 1..Len(all_data) :
            i < j => /\ all_data[i].scenario_name # all_data[j].scenario_name
                     /\ all_data[j].scenario_name # "Unzoned"
                     /\ SlotOf(all_data[i].scenario_name) < SlotOf(all_data[j].scenario_name)

\* Ten sources attempted; Scenario 1 could not be read and is skipped,
\* the nine others follow in order.
C4_Witness ==
    /\ pc = "done"
    /\ Len(loads) = 10
    /\ Len(all_data) = 9
    /\ all_data[1].scenario_name = "Unzoned"
    /\ all_data[2].scenario_name = "Scenario 2"
    /\ all_data[9].scenario_name = "Scenario 9"

\* The charts and tables on the page, in order.
ViewsRendered == SelectSeq(page, LAMBDA el : el.kind \in { "plotly_chart", "dataframe" })

\* What identifies each view: the chart's bar mode and first series, or the
\* table's first row label.
ViewTag(el) ==
    IF el.kind = "plotly_chart"
    THEN << "chart", el.fig.layout.barmode, el.fig.data[1].name >>
    ELSE << "table", el.index[1] >>

\* The four views in the fixed order: totals, income, bedroom, parking.
FixedViewOrder ==
    << << "chart", "group", "Total Units" >>, << "table", "Total Units" >>,
       << "chart", "stack", "<=50% MFI" >>, << "table", "<=50% MFI" >>,
       << "chart", "stack", "0 bedrooms" >>, << "table", "0 bedrooms" >>,
       << "chart", "stack", "Surface" >>, << "table", "Surface" >> >>

(* C5: a pass that ends with zero records shows a user-facing error and   *)
(* halts before any chart or table is rendered; a chart or table is       *)
(* rendered only in a pass that obtained at least one record, and such a  *)
(* pass renders all four views in the order totals, income, bedroom,      *)
(* parking.                                                               *)
C5_HaltsWithoutRecords ==
    LET tags == [i \in 1..Len(ViewsRendered) |-> ViewTag(ViewsRendered[i])]
    IN  /\ pc \in Rendering => all_data # <<>>
        /\ (pc \in AfterLoads /\ all_data = <<>>) =>
            /\ pc = "stopped_no_data"
            /\ page # <<>>
            /\ page[Len(page)] = [kind |-> "error", text |-> "Failed to load any data"]
        /\ pc \in { "stopped_no_data", "stopped_no_locator" } =>
            /\ all_data = <<>>
            /\ ViewsRendered = <<>>
            /\ \E i \in 1..Len(page) : page[i].kind = "error"
        /\ ViewsRendered # <<>> => all_data # <<>>
        /\ Len(tags) <= Len(FixedViewOrder)
        /\ tags = SubSeq(FixedViewOrder, 1, Len(tags))
        /\ pc = "done" => tags = FixedViewOrder

\* Every one of the three default loads failed: six error elements, then
\* the halt, and nothing rendered.
C5_Witness ==
    /\ pc = "stopped_no_data"
    /\ Len(loads) = 3
    /\ all_data = <<>>
    /\ Len(page) = 7
    /\ ViewsRendered = <<>>

\* What each parameter value the requests carry decodes to.
Decoded(v) ==
    IF v = param_encoded THEN << "u", "/", "z" >>
    ELSE IF v = param_partial THEN << "u", "%", "2" >>
    ELSE v

\* The scenarios configured for slot i.
SlotEntries(i) ==
    { j \in 1..Len(zoned_scenarios) : zoned_scenarios[j].name = scenario_name_of(i) }

(* C7: with no parameter supplied the configured sources are exactly the  *)
(* default baseline locator, named Unzoned, and the default scenario      *)
(* locator for slots 1 and 2, named Scenario 1 and Scenario 2; whatever   *)
(* the parameters, a slot in 3..9 is configured if and only if its own    *)
(* parameter is supplied and non-empty; every supplied locator is         *)
(* percent-decoded before use.                                            *)
C7_DefaultsAndDecoding ==
    pc \notin { "resolve", "fn_call", "fn_returned" } =>
        /\ DOMAIN params = {} =>
            /\ unzoned_csv_url = default_unzoned_url
            /\ zoned_scenarios =
                   << [url |-> default_zoned_url, name |-> "Scenario 1"],
                      [url |-> default_zoned_url, name |-> "Scenario 2"] >>
        /\ \A i \in DefaultSlotLimit..LastSlot :
            SlotEntries(i) # {} <=>
                (url_key(i) \in DOMAIN params /\ params[url_key(i)] # <<>>)
        /\ \A i \in 1..LastSlot :
            (url_key(i) \in DOMAIN params /\ params[url_key(i)] # <<>>) =>
                /\ Cardinality(SlotEntries(i)) = 1
                /\ \A j \in SlotEntries(i) :
                    zoned_scenarios[j].url = Decoded(params[url_key(i)])
        /\ ("unzoned_url" \in DOMAIN params /\ params["unzoned_url"] # <<>>) =>
            unzoned_csv_url = Decoded(params["unzoned_url"])

\* Only zoned_url_5 is supplied, encoded: slot 5 is configured with the
\* decoded locator, after the two defaults.
C7_Witness ==
    /\ pc = "validate"
    /\ DOMAIN params = { "zoned_url_5" }
    /\ params["zoned_url_5"] = << "u", "%", "2", "F", "z" >>
    /\ Len(zoned_scenarios) = 3
    /\ zoned_scenarios[3] = [url |-> << "u", "/", "z" >>, name |-> "Scenario 5"]

(* C10: the defaults are applied per slot: whatever the parameters, the   *)
(* baseline locator is non-empty and slots 1 and 2 are configured, so a   *)
(* pass attempts at least three loads and at most ten, the zero-locator   *)
(* halt is never taken, and the only halt is the one after every load     *)
(* returned None.                                                         *)
C10_ZeroLocatorHaltUnreachable ==
    /\ pc # "stopped_no_locator"
    /\ pc \notin { "resolve", "fn_call", "fn_returned" } =>
        /\ unzoned_csv_url # <<>>
        /\ Len(zoned_scenarios) \in 2..LastSlot
        /\ zoned_scenarios[1].name = "Scenario 1"
        /\ zoned_scenarios[2].name = "Scenario 2"
        /\ zoned_scenarios[1].url # <<>> /\ zoned_scenarios[2].url # <<>>
    /\ pc \in AfterLoads =>
        /\ Len(loads) \in 3..(LastSlot + 1)
        /\ Len(loads) = Len(zoned_scenarios) + 1
    /\ pc = "stopped_no_data" =>
        /\ all_data = <<>>
        /\ \A i \in 1..Len(loads) : ~(loads[i].url \in DOMAIN world /\ world[loads[i].url])

\* Only the baseline parameter is supplied, as the empty string at that:
\* the baseline and slots 1 and 2 still get their defaults, and the pass
\* makes its three loads.
C10_Witness ==
    /\ pc = "done"
    /\ DOMAIN params = { "unzoned_url" }
    /\ params["unzoned_url"] = <<>>
    /\ Len(loads) = 3
    /\ loads[1].url = default_unzoned_url
    /\ loads[2].url = default_zoned_url
    /\ loads[3].url = default_zoned_url

====
